---- MODULE Spec2Model ----
(***************************************************************************)
(* The `buckets` crate: five bucketing strategies (fixed-width, linear,    *)
(* quantile, range, custom), the eager sequence capability                 *)
(* Bucketize::bucketize_iter and the lazy adapter IntoBuckets.             *)
(*                                                                         *)
(* Element values are integers of a small range.  The element type T is    *)
(* "i32" (Rust integer arithmetic: truncating division, a panic on a zero  *)
(* divisor, `as usize` sign-extends and wraps) or "f64" (IEEE division     *)
(* that never panics, `as usize` truncates and saturates).  A float        *)
(* quotient is kept exactly as a pair <<n, d>> meaning n/d; d = 0 is an    *)
(* infinity (sign of n) or NaN (n = 0); rounding is not modelled.          *)
(* Values stay far from the ends of T, so value - offset never overflows.  *)
(* usize is UsizeBits wide.  Where the build profile decides (usize        *)
(* subtraction below zero) both outcomes are kept: overflow_checks.        *)
(***************************************************************************)
EXTENDS Integers, Sequences, FiniteSets

\* ------------------------------------------------------------ bounds
MaxVal == 3
MaxLen == 2
MaxSeq == 2
MaxSrc == 3
UsizeBits == 16

VARIABLES
    overflow_checks,  \* build profile: are integer overflow checks compiled in
    panicked,         \* the program has unwound with a panic
    bucketizer,       \* the strategy instance the caller owns (or NoBucketizer)
    new_args,         \* observer: the arguments the last constructor was given
    call,             \* the last bucketize / bucketize_iter call and what it returned
    adapter,          \* the IntoBuckets value: [inner, bucketizer] (or NoAdapter)
    out,              \* observer: what each adapter pull returned, in order
    inner_pulls,      \* observer: number of inner.next() calls made
    bucketize_calls   \* observer: number of bucketize calls the adapter made

vars == <<overflow_checks, panicked, bucketizer, new_args, call, adapter, out,
          inner_pulls, bucketize_calls>>

Vals == (0 - MaxVal)..MaxVal
Types == {"i32", "f64"}
UsizeMax == 2^UsizeBits - 1

\* ------------------------------------------------------ results
\* A call either returns a usize or panics (unwinds).
Ok(n) == [panic |-> FALSE, val |-> n]
Panicked == [panic |-> TRUE, val |-> 0]

Abs(n) == IF n < 0 THEN 0 - n ELSE n
Sign(n) == IF n < 0 THEN 0 - 1 ELSE IF n > 0 THEN 1 ELSE 0

\* Rust integer `/`: truncates toward zero (b # 0).
TruncDiv(a, b) == Sign(a) * Sign(b) * (Abs(a) \div Abs(b))

\* ------------------------------------------- numeric index conversion
\* `*self as usize` on a signed integer: sign-extend, reinterpret.
IntIntoUsize(n) == IF n < 0 THEN (UsizeMax + 1 + n) % (UsizeMax + 1) ELSE n % (UsizeMax + 1)

\* `*self as usize` on a float q = <<n, d>>: NaN and negatives give 0,
\* values beyond usize::MAX saturate, the fraction is discarded.
FloatIntoUsize(q) ==
    IF q[2] = 0
    THEN IF q[1] > 0 THEN UsizeMax ELSE 0
    ELSE IF Sign(q[1]) * Sign(q[2]) <= 0
         THEN 0
         ELSE IF Abs(q[1]) \div Abs(q[2]) > UsizeMax
              THEN UsizeMax
              ELSE Abs(q[1]) \div Abs(q[2])

into_usize(ty, q) == IF ty = "i32" THEN IntIntoUsize(q[1]) ELSE FloatIntoUsize(q)

\* T::div: the quotient a / b of two T values given as pairs, or a panic
\* (integer division by zero).  A float quotient is (a1/a2)/(b1/b2).
DivPanics(ty, b) == ty = "i32" /\ b[1] = 0
Div(ty, a, b) ==
    IF ty = "i32"
    THEN <<TruncDiv(a[1], b[1]), 1>>
    ELSE <<a[1] * b[2], a[2] * b[1]>>

\* usize `n - 1`: with overflow checks (debug profile) 0 - 1 panics, without
\* them (release profile) it wraps to usize::MAX.
UsizePred(n) ==
    IF n > 0 THEN Ok(n - 1)
    ELSE IF overflow_checks THEN Panicked ELSE Ok(UsizeMax)

\* ------------------------------------------------------ Fixed-Width
FixedWidthNew(ty, width, offset) ==
    [kind |-> "fw", ty |-> ty, width |-> width, offset |-> offset]

\* Mutant: the offset is not subtracted.
FixedWidthBucketizeNoOffset(self, value) ==
    LET width == <<self.width, 1>>
    IN  IF DivPanics(self.ty, width)
        THEN Panicked
        ELSE Ok(into_usize(self.ty, Div(self.ty, <<value, 1>>, width)))

FixedWidthBucketize(self, value) ==
    LET adjusted_value == <<value - self.offset, 1>>
        width == <<self.width, 1>>
    IN  IF DivPanics(self.ty, width)
        THEN Panicked
        ELSE Ok(into_usize(self.ty, Div(self.ty, adjusted_value, width)))

\* ----------------------------------------------------------- Linear
\* new() panics when T is an integer and num_buckets = 0.
LinearNewPanics(ty, start, end, num_buckets) == DivPanics(ty, <<num_buckets, 1>>)

LinearNew(ty, start, end, num_buckets) ==
    [kind |-> "linear", ty |-> ty, start |-> start,
     num_buckets |-> into_usize(ty, <<num_buckets, 1>>),
     bucket_width |-> Div(ty, <<end - start, 1>>, <<num_buckets, 1>>)]

LinearBucketize(self, value) ==
    IF DivPanics(self.ty, self.bucket_width)
    THEN Panicked
    ELSE LET bucket_index ==
                 into_usize(self.ty, Div(self.ty, <<value - self.start, 1>>, self.bucket_width))
         IN  IF bucket_index < self.num_buckets
             THEN Ok(bucket_index)
             ELSE UsizePred(self.num_buckets)

\* --------------------------------------------------------- Quantile
QuantileNew(quantiles, n_quantiles) ==
    [kind |-> "quantile", quantiles |-> quantiles, n_quantiles |-> n_quantiles]

get_n_quantiles(self) == self.n_quantiles

\* .iter().position(|&quantile| value < &quantile), scanning from index i
\* (1-based here); the result is 0-based, -1 standing for None.
\* Mutant: the scan stops at a cut point equal to the value (<= for <).
RECURSIVE QuantilePositionInclusive(_, _, _)
QuantilePositionInclusive(quantiles, value, i) ==
    IF i > Len(quantiles) THEN 0 - 1
    ELSE IF value <= quantiles[i] THEN i - 1
    ELSE QuantilePositionInclusive(quantiles, value, i + 1)

RECURSIVE QuantilePosition(_, _, _)
QuantilePosition(quantiles, value, i) ==
    IF i > Len(quantiles) THEN 0 - 1
    ELSE IF value < quantiles[i] THEN i - 1
    ELSE QuantilePosition(quantiles, value, i + 1)

QuantileBucketize(self, value) ==
    LET pos == QuantilePosition(self.quantiles, value, 1)
    IN  IF pos >= 0 THEN Ok(pos) ELSE Ok(Len(self.quantiles))

\* ------------------------------------------------------------ Range
RangeNew(ranges) == [kind |-> "range", ranges |-> ranges]

\* .iter().position(|(start, end)| value >= start && value < end)
RECURSIVE RangePosition(_, _, _)
RangePosition(ranges, value, i) ==
    IF i > Len(ranges) THEN 0 - 1
    ELSE IF value >= ranges[i][1] /\ value < ranges[i][2] THEN i - 1
    ELSE RangePosition(ranges, value, i + 1)

RangeBucketize(self, value) ==
    LET bucket_position == RangePosition(self.ranges, value, 1)
    IN  IF bucket_position >= 0
        THEN Ok(bucket_position)
        ELSE UsizePred(Len(self.ranges))

\* ----------------------------------------------------------- Custom
CustomNew(func) == [kind |-> "custom", bucketizer |-> func]

CustomBucketize(self, value) == Ok(self.bucketizer[value])

\* ------------------------------------------ BucketizeSingle::bucketize
bucketize(self, value) ==
    CASE self.kind = "fw" -> FixedWidthBucketize(self, value)
      [] self.kind = "linear" -> LinearBucketize(self, value)
      [] self.kind = "quantile" -> QuantileBucketize(self, value)
      [] self.kind = "range" -> RangeBucketize(self, value)
      [] self.kind = "custom" -> CustomBucketize(self, value)

\* ------------------------------------------------------- iterators
\* Option<T>: Some(v) is <<v>>, None is <<>>.
Some(v) == <<v>>
None == <<>>

\* An Iterator<Item = T> is the script of what its next() calls return; past
\* the script it returns None.  A Vec's iterator holds no None; a source that
\* resumes after None holds one inside.
IterNext(iter) == IF iter = <<>> THEN None ELSE Head(iter)
IterRest(iter) == IF iter = <<>> THEN <<>> ELSE Tail(iter)

\* ----------------------------------------- Bucketize::bucketize_iter
\* iter.map(|value| self.bucketize(&value)).collect::<Vec<usize>>():
\* collect pulls the mapped iterator until its first None.
RECURSIVE Collect(_, _, _)
Collect(self, iter, acc) ==
    IF IterNext(iter) = None
    THEN Ok(acc)
    ELSE LET r == bucketize(self, IterNext(iter)[1])
         IN  IF r.panic THEN Panicked
             ELSE Collect(self, IterRest(iter), Append(acc, r.val))

\* Mutant: the indices come out in reverse order.
bucketize_iter_reversed(self, iter) ==
    LET r == Collect(self, iter, <<>>)
    IN  IF r.panic THEN r
        ELSE Ok([i \in 1..Len(r.val) |-> r.val[Len(r.val) + 1 - i]])

bucketize_iter(self, iter) == Collect(self, iter, <<>>)

\* ------------------------------------------------------ IntoBuckets
NoBucketizer == [kind |-> "none"]
NoAdapter == [inner |-> <<>>, bucketizer |-> NoBucketizer]
NoCall == [op |-> "none", arg |-> <<>>, ret |-> Ok(0)]

IntoBucketsNew(inner, b) == [inner |-> inner, bucketizer |-> b]

\* What IntoBuckets::next returns: self.inner.next().map(|value| bucketize(&value)),
\* as Ok(Option<usize>) or a panic out of bucketize.
\* Mutant: the adapter yields 1-based bucket indices.
IntoBucketsNextRetOneBased(self) ==
    IF IterNext(self.inner) = None
    THEN Ok(None)
    ELSE LET r == bucketize(self.bucketizer, IterNext(self.inner)[1])
         IN  IF r.panic THEN Panicked ELSE Ok(Some(r.val + 1))

IntoBucketsNextRet(self) ==
    IF IterNext(self.inner) = None
    THEN Ok(None)
    ELSE LET r == bucketize(self.bucketizer, IterNext(self.inner)[1])
         IN  IF r.panic THEN Panicked ELSE Ok(Some(r.val))

\* Mutant: the adapter looks one element ahead, pulling the source twice.
IntoBucketsNextSelfLookAhead(self) == [self EXCEPT !.inner = IterRest(IterRest(self.inner))]

\* The adapter after the call: only the inner iterator has advanced.
IntoBucketsNextSelf(self) == [self EXCEPT !.inner = IterRest(self.inner)]

\* ------------------------------------------------------------ inputs
SeqsOver(S, n) == UNION {[1..k -> S] : k \in 0..n}

\* Cut points and range bounds handed to the constructors.
Marks == {0, 1, 2}
RangePairs == Marks \X Marks

\* Caller-supplied closures: the documentation's threshold ladder, from t.
Ladder(t) == [v \in Vals |-> IF v < t THEN 0 ELSE IF v < t + 1 THEN 1 ELSE IF v < t + 2 THEN 2 ELSE 3]
CustomFuncs == {Ladder(t) : t \in Vals}

\* Items an iterator yields, and iterators as scripts of next() results.
Items == {0 - 1, 1, MaxVal}
Options == {Some(v) : v \in Items} \cup {None}

\* Strategy instances of every kind, for the sequence layer.
Strategies ==
    {FixedWidthNew(ty, w, o) : ty \in Types, w \in {1, 2}, o \in {0, 1}}
    \cup {LinearNew(ty, 0, MaxVal, nb) : ty \in Types, nb \in {1, 2}}
    \cup {QuantileNew(q, Len(q)) : q \in {<<>>, <<1>>, <<1, 2>>, <<2, 1>>}}
    \cup {RangeNew(r) : r \in {<<>>, <<<<0, 2>>>>, <<<<0, 2>>, <<1, MaxVal>>>>}}
    \cup {CustomNew(Ladder(t)) : t \in {0, 1}}

\* ----------------------------------------------------------- actions
Live == ~panicked
Idle == Live /\ bucketizer = NoBucketizer /\ adapter = NoAdapter
lazy_vars == <<adapter, out, inner_pulls, bucketize_calls>>

NewFixedWidth ==
    /\ Idle
    /\ \E ty \in Types, width \in Vals, offset \in Vals :
           /\ bucketizer' = FixedWidthNew(ty, width, offset)
           /\ new_args' = <<width, offset>>
    /\ UNCHANGED <<overflow_checks, panicked, call, lazy_vars>>

NewLinear ==
    /\ Idle
    /\ \E ty \in Types, start \in Vals, end \in Vals, num_buckets \in Vals :
           /\ new_args' = <<start, end, num_buckets>>
           /\ IF LinearNewPanics(ty, start, end, num_buckets)
              THEN panicked' = TRUE /\ UNCHANGED bucketizer
              ELSE bucketizer' = LinearNew(ty, start, end, num_buckets) /\ UNCHANGED panicked
    /\ UNCHANGED <<overflow_checks, call, lazy_vars>>

NewQuantile ==
    /\ Idle
    /\ \E quantiles \in SeqsOver(Marks, MaxLen), n_quantiles \in 0..1 :
           /\ bucketizer' = QuantileNew(quantiles, n_quantiles * (Len(quantiles) + 1))
           /\ new_args' = <<quantiles, n_quantiles * (Len(quantiles) + 1)>>
    /\ UNCHANGED <<overflow_checks, panicked, call, lazy_vars>>

NewRange ==
    /\ Idle
    /\ \E ranges \in SeqsOver(RangePairs, MaxLen) :
           /\ bucketizer' = RangeNew(ranges)
           /\ new_args' = <<ranges>>
    /\ UNCHANGED <<overflow_checks, panicked, call, lazy_vars>>

NewCustom ==
    /\ Idle
    /\ \E func \in CustomFuncs :
           /\ bucketizer' = CustomNew(func)
           /\ new_args' = <<func>>
    /\ UNCHANGED <<overflow_checks, panicked, call, lazy_vars>>

\* bucketizer.bucketize(&value)
Bucketize ==
    /\ Live
    /\ bucketizer # NoBucketizer
    /\ \E value \in Vals :
           LET ret == bucketize(bucketizer, value)
           IN  /\ call' = [op |-> "bucketize", arg |-> <<value>>, ret |-> ret]
               /\ panicked' = ret.panic
    /\ UNCHANGED <<overflow_checks, bucketizer, new_args, lazy_vars>>

\* bucketizer.get_n_quantiles()
GetNQuantiles ==
    /\ Live
    /\ bucketizer.kind = "quantile"
    /\ call' = [op |-> "get_n_quantiles", arg |-> <<>>, ret |-> Ok(get_n_quantiles(bucketizer))]
    /\ UNCHANGED <<overflow_checks, panicked, bucketizer, new_args, lazy_vars>>

\* bucketizer.bucketize_iter(iter)
BucketizeIter ==
    /\ Live
    /\ bucketizer # NoBucketizer
    /\ \E iter \in SeqsOver(Options, MaxSeq) :
           LET ret == bucketize_iter(bucketizer, iter)
           IN  /\ call' = [op |-> "bucketize_iter", arg |-> iter, ret |-> ret]
               /\ panicked' = ret.panic
    /\ UNCHANGED <<overflow_checks, bucketizer, new_args, lazy_vars>>

\* IntoBuckets::new(inner, bucketizer): the strategy moves into the adapter.
NewIntoBuckets ==
    /\ Live
    /\ bucketizer # NoBucketizer
    /\ call = NoCall
    /\ adapter = NoAdapter
    /\ \E inner \in SeqsOver(Options, MaxSrc) :
           /\ adapter' = IntoBucketsNew(inner, bucketizer)
           /\ new_args' = <<inner, bucketizer>>
    /\ bucketizer' = NoBucketizer
    /\ UNCHANGED <<overflow_checks, panicked, call, out, inner_pulls, bucketize_calls>>

\* adapter.next(); pulls past the source's script are capped at one.
IntoBucketsNext ==
    /\ Live
    /\ adapter # NoAdapter
    /\ Len(out) <= MaxSrc
    /\ LET ret == IntoBucketsNextRet(adapter)
       IN  /\ adapter' = IntoBucketsNextSelf(adapter)
           /\ inner_pulls' = inner_pulls + 1
           /\ bucketize_calls' = bucketize_calls + (IF IterNext(adapter.inner) = None THEN 0 ELSE 1)
           /\ panicked' = ret.panic
           /\ out' = IF ret.panic THEN out ELSE Append(out, ret.val)
    /\ UNCHANGED <<overflow_checks, bucketizer, new_args, call>>

NoObservers ==
    /\ adapter = NoAdapter
    /\ out = <<>>
    /\ inner_pulls = 0
    /\ bucketize_calls = 0

\* Before any constructor has run.
Init ==
    /\ overflow_checks \in BOOLEAN
    /\ panicked = FALSE
    /\ bucketizer = NoBucketizer
    /\ new_args = <<>>
    /\ call = NoCall
    /\ NoObservers

\* The strategies: construction and single-value bucketization.
Next ==
    \/ NewFixedWidth
    \/ NewLinear
    \/ NewQuantile
    \/ NewRange
    \/ NewCustom
    \/ Bucketize
    \/ GetNQuantiles

Spec == Init /\ [][Next]_vars

\* The sequence layer, from a constructed strategy: the eager
\* bucketize_iter and the lazy adapter over a source iterator.
InitSeq ==
    /\ overflow_checks \in BOOLEAN
    /\ panicked = FALSE
    /\ bucketizer \in Strategies
    /\ new_args = <<>>
    /\ call = NoCall
    /\ NoObservers

NextSeq ==
    \/ BucketizeIter
    \/ NewIntoBuckets
    \/ IntoBucketsNext

SpecSeq == InitSeq /\ [][NextSeq]_vars

\* ============================================================ claims
\* The last call was bucketize(value) on a strategy of the given kind.
Bucketized(kind) == call.op = "bucketize" /\ bucketizer.kind = kind
Min(S) == CHOOSE x \in S : \A y \in S : x <= y

\* The strategy divides by zero: width = 0, num_buckets = 0 given to
\* Linear's constructor, or a Linear bucket_width that came out 0.  The
\* claims below about failures are read with these instances left out.
DividesByZero ==
    \/ bucketizer.kind = "fw" /\ bucketizer.width = 0
    \/ bucketizer.kind = "linear" /\ (new_args[3] = 0 \/ bucketizer.bucket_width[1] = 0)

\* C3: a Linear strategy built by new(start, end, num_buckets) with
\* start < end and num_buckets >= 1, over integers as well as floats, sends
\* every value below start to bucket 0 and every value at or beyond end to
\* bucket num_buckets - 1.
C3_LinearClampsBothEnds ==
    (Bucketized("linear") /\ ~DividesByZero /\ new_args[1] < new_args[2] /\ new_args[3] >= 1) =>
        /\ call.arg[1] < new_args[1] => call.ret = Ok(0)
        /\ call.arg[1] >= new_args[2] => call.ret = Ok(new_args[3] - 1)

\* C4: for every Linear instance and every value, bucketize returns an
\* index in [0, num_buckets - 1], num_buckets being the count fixed at
\* construction.
C4_LinearIndexBounded ==
    (Bucketized("linear") /\ ~DividesByZero) =>
        /\ ~call.ret.panic
        /\ 0 <= call.ret.val
        /\ call.ret.val <= bucketizer.num_buckets - 1

\* C5: a Fixed-Width strategy with width > 0 maps every value of
\* [offset + k*width, offset + (k+1)*width), k >= 0, to k, which is
\* floor((value - offset) / width), without clamping; the boundary
\* offset + k*width itself maps to k; width 5, offset 0, value 12 gives 2.
C5_FixedWidthFloor ==
    /\ \A ty \in Types : FixedWidthBucketize(FixedWidthNew(ty, 5, 0), 12) = Ok(2)
    /\ (Bucketized("fw") /\ bucketizer.width > 0 /\ call.arg[1] >= bucketizer.offset) =>
          \E k \in 0..(2 * MaxVal) :
             /\ bucketizer.offset + k * bucketizer.width <= call.arg[1]
             /\ call.arg[1] < bucketizer.offset + (k + 1) * bucketizer.width
             /\ k = (call.arg[1] - bucketizer.offset) \div bucketizer.width
             /\ call.ret = Ok(k)

\* C5 witness: a value exactly on the boundary offset + k*width, k >= 1,
\* of buckets wider than 1 was bucketized into bucket k.
C5_Witness ==
    /\ Bucketized("fw")
    /\ bucketizer.width > 1
    /\ \E k \in 1..MaxVal :
          call.arg[1] = bucketizer.offset + k * bucketizer.width /\ call.ret = Ok(k)

\* C6: a Quantile strategy, whatever the length or order of its cut
\* points, returns the position of the first cut point strictly greater
\* than the value, or the number of cut points when none is; a value equal
\* to a cut point lands after it ([25, 50, 75]: 55 and 50 both give 2); the
\* result does not depend on n_quantiles.
C6_QuantileFirstGreater ==
    /\ \A v \in {50, 55} : QuantileBucketize(QuantileNew(<<25, 50, 75>>, 3), v) = Ok(2)
    /\ Bucketized("quantile") =>
          LET q == bucketizer.quantiles
              v == call.arg[1]
              above == {i \in 1..Len(q) : q[i] > v}
          IN  /\ call.ret = Ok(IF above = {} THEN Len(q) ELSE Min(above) - 1)
              /\ \A n \in 0..(MaxLen + 1) :
                    QuantileBucketize([bucketizer EXCEPT !.n_quantiles = n], v) = call.ret

\* C6 witness: a value equal to the first of two cut points was put into
\* the bucket after that cut point.
C6_Witness ==
    /\ Bucketized("quantile")
    /\ Len(bucketizer.quantiles) = 2
    /\ bucketizer.quantiles[1] = call.arg[1]
    /\ call.ret = Ok(1)

\* C7: a Range strategy returns the position of the first pair with
\* lower <= value < upper, and the last index, length - 1, without failing,
\* when no pair contains the value.
C7_RangeFirstMatchOrLast ==
    Bucketized("range") =>
        LET r == bucketizer.ranges
            v == call.arg[1]
            holding == {i \in 1..Len(r) : r[i][1] <= v /\ v < r[i][2]}
        IN  call.ret = Ok(IF holding = {} THEN Len(r) - 1 ELSE Min(holding) - 1)

\* C8: bucketize is total: on every instance a constructor returned without
\* dividing by zero (an empty Range or Quantile list and a Linear
\* num_buckets converting to 0 included), for every value, it returns a
\* non-negative index and does not panic.
C8_BucketizeTotal ==
    (call.op = "bucketize" /\ ~DividesByZero) =>
        (~call.ret.panic /\ call.ret.val >= 0)

\* ------------------------------------------------- the sequence layer
\* The sequence an iterator yields: its items up to its first None.
FirstNone(opts) == Min({i \in 1..Len(opts) : opts[i] = None} \cup {Len(opts) + 1})
Yielded(opts) == [i \in 1..(FirstNone(opts) - 1) |-> opts[i][1]]

\* C1: bucketize_iter(seq) has the length of seq and its element i is
\* bucketize(seq[i]), in the input order, for every strategy.
C1_BucketizeIterMapsInOrder ==
    call.op = "bucketize_iter" =>
        LET seq == Yielded(call.arg)
        IN  /\ call.ret.panic <=> \E i \in 1..Len(seq) : bucketize(bucketizer, seq[i]).panic
            /\ ~call.ret.panic =>
                  /\ Len(call.ret.val) = Len(seq)
                  /\ \A i \in 1..Len(seq) : bucketize(bucketizer, seq[i]) = Ok(call.ret.val[i])

\* C1 witness: a sequence of two values that fall into different buckets
\* was bucketized eagerly.
C1_Witness ==
    /\ call.op = "bucketize_iter"
    /\ ~call.ret.panic
    /\ Len(call.arg) = 2
    /\ Len(call.ret.val) = 2
    /\ call.ret.val[1] # call.ret.val[2]

\* C2: once a pull of the adapter has yielded end-of-sequence, every later
\* pull yields end-of-sequence too, whatever the source does.
C2_ExhaustionIsFinal ==
    \A i \in 1..Len(out) : \A j \in 1..Len(out) :
        (i < j /\ out[i] = None) => out[j] = None

\* Adapter pulls made so far (a pull that panicked returned nothing).
Pulls == Len(out) + (IF panicked THEN 1 ELSE 0)
Drop(s, n) == IF n >= Len(s) THEN <<>> ELSE SubSeq(s, n + 1, Len(s))
Source == new_args[1]
Given == new_args[2]
SourceAt(i) == IF i > Len(Source) THEN None ELSE Source[i]

\* C9: no buffering, no look-ahead: each adapter pull pulls the source
\* once and bucketizes the element pulled, with the strategy it was given;
\* after k pulls the source has advanced by exactly k, and what follows is
\* still unconsumed in the source.
C9_OnePullPerPull ==
    adapter # NoAdapter =>
        /\ inner_pulls = Pulls
        /\ adapter.inner = Drop(Source, Pulls)
        /\ adapter.bucketizer = Given
        /\ bucketize_calls = Cardinality({i \in 1..Pulls : SourceAt(i) # None})
        /\ \A i \in 1..Len(out) :
              out[i] = IF SourceAt(i) = None THEN None
                       ELSE Some(bucketize(adapter.bucketizer, SourceAt(i)[1]).val)

\* C9 witness: an adapter pulled twice, both pulls yielding values, is
\* still Active and the next source element is still in the source.
C9_Witness ==
    /\ adapter # NoAdapter
    /\ ~panicked
    /\ Len(out) = 2
    /\ \A i \in 1..2 : out[i] # None
    /\ Len(Source) = 3
    /\ adapter.inner = <<Source[3]>>
    /\ Source[3] # None

\* C10: pulling the adapter until it first yields end-of-sequence gives
\* exactly the indices, in order, that the eager bucketize_iter returns on
\* the same source; the lazy path panics before that exactly when the
\* eager path panics.
C10_LazyEqualsEager ==
    adapter # NoAdapter =>
        LET eager == bucketize_iter(Given, Source)
            n == FirstNone(out)
        IN  /\ n <= Len(out) => eager = Ok([i \in 1..(n - 1) |-> out[i][1]])
            /\ (panicked /\ n > Len(out)) => eager.panic

\* C10 witness: the adapter yielded two different indices and then
\* end-of-sequence.
C10_Witness ==
    /\ adapter # NoAdapter
    /\ Len(out) = 3
    /\ out[1] # None /\ out[2] # None /\ out[1] # out[2]
    /\ out[3] = None
====
